---- MODULE Spec2Model ----
(***************************************************************************)
(* A model of the solver endpoint of src/api.py: the pattern-constrained   *)
(* scalar types Address and TokenAmount, the validation of the Order and   *)
(* Auction request models, and the POST /api/v1/solve handler, served for  *)
(* several requests whose steps interleave.                                *)
(*                                                                         *)
(* Text is a sequence of characters, each character a one-element string   *)
(* token.  "U+0663" stands for the single code point ARABIC-INDIC DIGIT    *)
(* THREE and "LF" for the line feed.                                       *)
(*                                                                         *)
(* Of the request models only the fields the properties below speak about  *)
(* are kept (Order: uid, sellToken, buyToken, sellAmount, buyAmount;       *)
(* Auction: orders); every other required field is taken to be present and *)
(* well formed in every request.                                           *)
(***************************************************************************)
EXTENDS Integers, Sequences, FiniteSets, TLC

VARIABLES
    pc,        \* per request: where the request is in its life
    body,      \* per request: the request body as sent (<<>> before it is sent)
    auction,   \* per request: the validated Auction handed to solve (<<>> if none)
    raw,       \* per request: the local `raw` of solve (<<>> before it is read)
    response,  \* per request: the HTTP response (<<>> while there is none)
    log,       \* the records the module-level logger has emitted, in order
    field,     \* a single scalar under validation: its declared type and its text
    verdict    \* what validation said about `field`

vars == <<pc, body, auction, raw, response, log, field, verdict>>

(***************************************************************************)
(* Bounds.                                                                 *)
(***************************************************************************)
MaxReq == 2

MaxOrders == 2

MaxAmountLen == 3

Requests == 1..MaxReq

(***************************************************************************)
(* Characters and the two patterns.                                        *)
(***************************************************************************)
HexLen == 40

AsciiDigit == {"0", "1", "2", "3", "4", "5", "6", "7", "8", "9"}

\* Code points of category Nd outside ASCII (one representative).
OtherDecimalDigit == {"U+0663"}

\* [0-9a-fA-F]
HexChar == AsciiDigit \cup {"a", "b", "c", "d", "e", "f", "A", "B", "C", "D", "E", "F"}

\* \d in a str pattern: every code point of category Nd, not only 0-9.
DigitChar == AsciiDigit \cup OtherDecimalDigit

\* ^0x[0-9a-fA-F]{40}$   ($ is the end of the text: a trailing line feed does
\* not match under the default pattern engine)
Address(s) ==
    /\ Len(s) = 2 + HexLen
    /\ s[1] = "0"
    /\ s[2] = "x"
    /\ \A i \in 3..Len(s) : s[i] \in HexChar

\* ^\d+$   (any length; \d as in DigitChar)
TokenAmount(s) ==
    /\ Len(s) >= 1
    /\ \A i \in 1..Len(s) : s[i] \in DigitChar

(***************************************************************************)
(* The request models.                                                     *)
(***************************************************************************)
\* class Order: uid is an unconstrained str, the tokens are Address, the
\* amounts TokenAmount.  No validator relates two fields of an order.
Order(o) ==
    /\ Address(o.sellToken)
    /\ Address(o.buyToken)
    /\ TokenAmount(o.sellAmount)
    /\ TokenAmount(o.buyAmount)

\* class Auction: orders is a List[Order]; each element validates as an Order.
\* No validator relates two orders of the list.
Auction(b) == \A i \in 1..Len(b.orders) : Order(b.orders[i])

\* list(auction.model_dump().keys()): the declared fields, in order.
AuctionKeys ==
    <<"id", "tokens", "orders", "liquidity", "effectiveGasPrice", "deadline",
      "surplusCapturingJitOrderOwners">>

(***************************************************************************)
(* The response models and the handler's result.                           *)
(***************************************************************************)
\* prices={}
EmptyPrices == [t \in {} |-> <<>>]

(***************************************************************************)
(* Decimal text and three builders the handler does NOT run; the           *)
(* properties below are contrasted with them.                              *)
(***************************************************************************)
Last(seq) == seq[Len(seq)]

DigitVal(c) ==
    CASE c = "0" -> 0 [] c = "1" -> 1 [] c = "2" -> 2 [] c = "3" -> 3 [] c = "4" -> 4
      [] c = "5" -> 5 [] c = "6" -> 6 [] c = "7" -> 7 [] c = "8" -> 8 [] c = "9" -> 9
      [] c = "U+0663" -> 3

DigitChr(d) == <<"0", "1", "2", "3", "4", "5", "6", "7", "8", "9">>[d + 1]

RECURSIVE ToInt(_)
ToInt(s) == IF Len(s) = 0 THEN 0 ELSE 10 * ToInt(SubSeq(s, 1, Len(s) - 1)) + DigitVal(Last(s))

RECURSIVE ToText(_)
ToText(n) == IF n < 10 THEN <<DigitChr(n)>> ELSE Append(ToText(n \div 10), DigitChr(n % 10))

\* The naive builder of the specification: one full-fill trade of the last
\* order at the prices sellAmount + 1 / buyAmount, no solution without orders.
NaivePrices(o) ==
    [t \in {o.sellToken, o.buyToken} |->
        IF t = o.sellToken THEN ToText(ToInt(o.sellAmount) + 1) ELSE o.buyAmount]

NaiveTrade(o) ==
    [kind |-> "fulfillment", order |-> o.uid, executedAmount |-> o.sellAmount,
     fee |-> <<"0">>]

NaiveBuilder(a) ==
    IF Len(a.orders) = 0
    THEN [solutions |-> <<>>]
    ELSE [solutions |->
            <<[id |-> 1, prices |-> NaivePrices(Last(a.orders)),
               trades |-> <<NaiveTrade(Last(a.orders))>>, interactions |-> <<>>]>>]

\* A builder that fills the last order without pricing its tokens.
UnpricedBuilder(a) ==
    IF Len(a.orders) = 0
    THEN [solutions |-> <<[id |-> 1, prices |-> EmptyPrices, trades |-> <<>>,
                           interactions |-> <<>>]>>]
    ELSE [solutions |->
            <<[id |-> 1, prices |-> EmptyPrices,
               trades |-> <<NaiveTrade(Last(a.orders))>>, interactions |-> <<>>]>>]

\* A builder that answers an auction without orders with no solution.
EmptyWhenNoOrders(a) ==
    IF Len(a.orders) = 0
    THEN [solutions |-> <<>>]
    ELSE [solutions |-> <<[id |-> 1, prices |-> EmptyPrices, trades |-> <<>>,
                           interactions |-> <<>>]>>]

\* solution = Solution(id=1, prices={}, trades=[], interactions=[])
\* return SolutionResponse(solutions=[solution])
\* The parsed auction is a parameter of the handler and is not read.
SolutionResponse(a) ==
    [solutions |-> <<[id |-> 1, prices |-> EmptyPrices, trades |-> <<>>,
                      interactions |-> <<>>]>>]

(***************************************************************************)
(* Request bodies the clients send.                                        *)
(***************************************************************************)
Rep(c, n) == [i \in 1..n |-> c]

TokenA == <<"0", "x">> \o Rep("a", HexLen)

TokenB == <<"0", "x">> \o Rep("B", HexLen)

OrderCandidates ==
    { [uid |-> "0xdead", sellToken |-> TokenA, buyToken |-> TokenB,
       sellAmount |-> <<"1", "0", "0", "0">>, buyAmount |-> <<"9", "0", "0">>],
      \* sells and buys the same token
      [uid |-> "0xcafe", sellToken |-> TokenB, buyToken |-> TokenB,
       sellAmount |-> <<"9", "9">>, buyAmount |-> <<"7">>],
      \* "12a" is no TokenAmount
      [uid |-> "0xf00d", sellToken |-> TokenA, buyToken |-> TokenB,
       sellAmount |-> <<"1", "2", "a">>, buyAmount |-> <<"4">>] }

\* Every list of at most MaxOrders candidates; an order may occur twice, which
\* gives a list two orders with the same uid.
OrderLists == UNION { [1..n -> OrderCandidates] : n \in 0..MaxOrders }

Bodies == { [orders |-> os] : os \in OrderLists }

(***************************************************************************)
(* Scalars put under validation on their own.                              *)
(***************************************************************************)
AmountAlphabet == {"0", "7", "9", "a", "-", ".", "U+0663", "LF"}

LongLen == 100

AmountCandidates ==
    UNION { [1..n -> AmountAlphabet] : n \in 0..MaxAmountLen }
      \cup { Rep("9", LongLen) }

\* seq with position i overwritten by d (i = 0: unchanged)
Poke(seq, i, d) == [j \in 1..Len(seq) |-> IF j = i THEN d ELSE seq[j]]

AddressCandidates ==
    { pre \o Poke(Rep(c, n), i, d) \o tail :
        pre \in {<<"0", "x">>, <<"0", "X">>, <<"x">>, <<>>},
        c \in {"a", "F", "0"},
        n \in (HexLen - 1)..(HexLen + 1),
        i \in {0, 1, HexLen - 1},
        d \in {"g", "Z", "9", "U+0663"},
        tail \in {<<>>, <<"LF">>} }

FieldCandidates ==
    { [type |-> "Address", text |-> s] : s \in AddressCandidates }
      \cup { [type |-> "TokenAmount", text |-> s] : s \in AmountCandidates }

(***************************************************************************)
(* The life of a request.                                                  *)
(*   idle -> rejected                           (422, solve not called)    *)
(*        -> handler -> raw_read -> responded   (200)                      *)
(***************************************************************************)
InHandler == {"handler", "raw_read", "responded"}

Finished == {"rejected", "responded"}

\* A client posts body b to /api/v1/solve; requests are numbered in the order
\* they arrive.
\* auction: Auction = Body(...): the framework validates the body against the
\* Auction model before it calls solve; a body that does not validate is
\* answered 422 and solve is not called.  Validation returns the field values
\* as they were sent.
Arrives(r) ==
    /\ pc[r] = "idle"
    /\ \A q \in Requests : q < r => pc[q] # "idle"

\* Calls solve whatever the body is.
ReceiveUnchecked(r, b) ==
    /\ Arrives(r)
    /\ body' = [body EXCEPT ![r] = <<b>>]
    /\ pc' = [pc EXCEPT ![r] = "handler"]
    /\ auction' = [auction EXCEPT ![r] = <<b>>]
    /\ UNCHANGED <<raw, response, log, field, verdict>>

Receive(r, b) ==
    /\ Arrives(r)
    /\ body' = [body EXCEPT ![r] = <<b>>]
    /\ IF Auction(b)
       THEN /\ pc' = [pc EXCEPT ![r] = "handler"]
            /\ auction' = [auction EXCEPT ![r] = <<b>>]
            /\ UNCHANGED response
       ELSE /\ pc' = [pc EXCEPT ![r] = "rejected"]
            /\ response' = [response EXCEPT ![r] = <<[status |-> 422]>>]
            /\ UNCHANGED auction
    /\ UNCHANGED <<raw, log, field, verdict>>

\* raw = await request.body(): the one suspension point of solve.
solve_await(r) ==
    /\ pc[r] = "handler"
    /\ raw' = [raw EXCEPT ![r] = body[r]]
    /\ pc' = [pc EXCEPT ![r] = "raw_read"]
    /\ UNCHANGED <<body, auction, response, log, field, verdict>>

\* The rest of solve runs without suspension: the two logger.info calls, the
\* placeholder Solution, the return.
LogRecords(r) ==
    <<[msg |-> "Raw body: %s", arg |-> raw[r][1]],
      [msg |-> "Parsed auction keys: %s", arg |-> AuctionKeys]>>

\* A handler that numbers its solution by what the logger has emitted so far.
solve_counting(r) ==
    /\ pc[r] = "raw_read"
    /\ log' = log \o LogRecords(r)
    /\ response' = [response EXCEPT ![r] =
          <<[status |-> 200,
             solutions |-> <<[id |-> Len(log) \div 2 + 1, prices |-> EmptyPrices,
                              trades |-> <<>>, interactions |-> <<>>]>>]>>]
    /\ pc' = [pc EXCEPT ![r] = "responded"]
    /\ UNCHANGED <<body, auction, raw, field, verdict>>

solve(r) ==
    /\ pc[r] = "raw_read"
    /\ log' = log \o LogRecords(r)
    /\ response' = [response EXCEPT ![r] =
          <<[status |-> 200, solutions |-> SolutionResponse(auction[r][1]).solutions]>>]
    /\ pc' = [pc EXCEPT ![r] = "responded"]
    /\ UNCHANGED <<body, auction, raw, field, verdict>>

NoField == [type |-> "none", text |-> <<>>]

Init ==
    /\ pc = [r \in Requests |-> "idle"]
    /\ body = [r \in Requests |-> <<>>]
    /\ auction = [r \in Requests |-> <<>>]
    /\ raw = [r \in Requests |-> <<>>]
    /\ response = [r \in Requests |-> <<>>]
    /\ log = <<>>
    /\ field = NoField
    /\ verdict = "unchecked"

Next ==
    \/ \E r \in Requests, b \in Bodies : Receive(r, b)
    \/ \E r \in Requests : solve_await(r)
    \/ \E r \in Requests : solve(r)

Spec == Init /\ [][Next]_vars

(***************************************************************************)
(* Validation of one scalar field on its own.                              *)
(***************************************************************************)
ValidateAddress ==
    /\ verdict = "unchecked"
    /\ field.type = "Address"
    /\ verdict' = IF Address(field.text) THEN "accepted" ELSE "rejected"
    /\ UNCHANGED <<pc, body, auction, raw, response, log, field>>

ValidateTokenAmount ==
    /\ verdict = "unchecked"
    /\ field.type = "TokenAmount"
    /\ verdict' = IF TokenAmount(field.text) THEN "accepted" ELSE "rejected"
    /\ UNCHANGED <<pc, body, auction, raw, response, log, field>>

InitParse ==
    /\ pc = [r \in Requests |-> "idle"]
    /\ body = [r \in Requests |-> <<>>]
    /\ auction = [r \in Requests |-> <<>>]
    /\ raw = [r \in Requests |-> <<>>]
    /\ response = [r \in Requests |-> <<>>]
    /\ log = <<>>
    /\ field \in FieldCandidates
    /\ verdict = "unchecked"

NextParse == ValidateAddress \/ ValidateTokenAmount

SpecParse == InitParse /\ [][NextParse]_vars

(***************************************************************************)
(* Properties.                                                             *)
(***************************************************************************)
Sent(r) == body[r][1]

Resp(r) == response[r][1]

Placeholder == [id |-> 1, prices |-> EmptyPrices, trades |-> <<>>, interactions |-> <<>>]

HasDuplicateUid(b) ==
    \E i, j \in 1..Len(b.orders) : i # j /\ b.orders[i].uid = b.orders[j].uid

HasSelfTrade(b) ==
    \E i \in 1..Len(b.orders) : b.orders[i].sellToken = b.orders[i].buyToken

\* Some Address or TokenAmount field of the body does not match its pattern.
FailsShape(b) ==
    \E i \in 1..Len(b.orders) :
        \/ ~Address(b.orders[i].sellToken)
        \/ ~Address(b.orders[i].buyToken)
        \/ ~TokenAmount(b.orders[i].sellAmount)
        \/ ~TokenAmount(b.orders[i].buyAmount)

\* C1: an accepted auction with the single order O (sellAmount S, buyAmount B)
\* is answered with one solution whose prices are S+1 for O.sellToken and B for
\* O.buyToken, with exactly one trade of O.uid executing S at fee "0", and with
\* no interactions.
C1_NaiveBuilderCorrect ==
    \A r \in Requests :
        (pc[r] = "responded" /\ Len(Sent(r).orders) = 1) =>
            LET o == Sent(r).orders[1]
                sols == Resp(r).solutions
            IN  /\ Len(sols) = 1
                /\ o.sellToken \in DOMAIN sols[1].prices
                /\ sols[1].prices[o.sellToken] = ToText(ToInt(o.sellAmount) + 1)
                /\ o.buyToken \in DOMAIN sols[1].prices
                /\ sols[1].prices[o.buyToken] = o.buyAmount
                /\ Len(sols[1].trades) = 1
                /\ sols[1].trades[1].order = o.uid
                /\ sols[1].trades[1].executedAmount = o.sellAmount
                /\ sols[1].trades[1].fee = <<"0">>
                /\ sols[1].interactions = <<>>

\* C2: an auction with zero orders is answered with an empty list of solutions.
C2_EmptyInputNoSolution ==
    \A r \in Requests :
        (pc[r] = "responded" /\ Len(Sent(r).orders) = 0) => Resp(r).solutions = <<>>

\* C3: a request whose auction holds two orders with the same uid ends in an
\* error and gets no solution response.
C3_DuplicateUidRejected ==
    \A r \in Requests :
        (pc[r] \in Finished /\ HasDuplicateUid(Sent(r))) =>
            (pc[r] = "rejected" /\ Resp(r).status # 200)

\* C4: a request whose auction holds an order selling and buying the same token
\* ends in an error and gets no solution response.
C4_SelfTradeRejected ==
    \A r \in Requests :
        (pc[r] \in Finished /\ HasSelfTrade(Sent(r))) =>
            (pc[r] = "rejected" /\ Resp(r).status # 200)

\* C5: an Address field is accepted exactly when it is "0x" followed by 40
\* hexadecimal characters, a TokenAmount field exactly when it is a non-empty
\* string of the decimal digits 0-9.
C5_AddressShape(s) ==
    /\ Len(s) = 42
    /\ SubSeq(s, 1, 2) = <<"0", "x">>
    /\ \A i \in 3..Len(s) : s[i] \in HexChar

C5_AmountShape(s) == Len(s) > 0 /\ \A i \in 1..Len(s) : s[i] \in AsciiDigit

\* C5: validation accepts a scalar exactly when it has the shape of its type.
C5_FormatEnforced ==
    verdict # "unchecked" =>
        (verdict = "accepted" <=>
            IF field.type = "Address"
            THEN C5_AddressShape(field.text)
            ELSE C5_AmountShape(field.text))

\* C6: every solution response holds exactly one solution, and its id is 1.
C6_SingleSolutionIdOne ==
    \A r \in Requests :
        pc[r] = "responded" =>
            /\ Resp(r).status = 200
            /\ Len(Resp(r).solutions) = 1
            /\ Resp(r).solutions[1].id = 1

C6_Witness ==
    \E r \in Requests : pc[r] = "responded" /\ Len(Sent(r).orders) = 0

\* C7: every trade of a solution response names the uid of an order of the
\* request's own auction, and the tokens of the orders it names are priced.
C7_TradesReferToOrders ==
    \A r \in Requests :
        pc[r] = "responded" =>
            \A k \in 1..Len(Resp(r).solutions) :
                LET sol == Resp(r).solutions[k]
                    os == Sent(r).orders
                IN  \A t \in 1..Len(sol.trades) :
                        /\ \E i \in 1..Len(os) : os[i].uid = sol.trades[t].order
                        /\ \A i \in 1..Len(os) :
                              os[i].uid = sol.trades[t].order =>
                                  {os[i].sellToken, os[i].buyToken} \subseteq DOMAIN sol.prices

C7_Witness ==
    \E r \in Requests :
        /\ pc[r] = "responded"
        /\ Len(Sent(r).orders) = MaxOrders
        /\ ~HasDuplicateUid(Sent(r))

\* C8, in a state: two finished requests with the same body have the same
\* outcome, whatever was served before or in between.
C8_SameBodySameOutcome ==
    \A r1, r2 \in Requests :
        (pc[r1] \in Finished /\ pc[r2] \in Finished /\ body[r1] = body[r2]) =>
            response[r1] = response[r2]

\* C8, in a step: a step touches the variables of one request only, never those
\* of a finished request, and leaves what the logger has emitted as it is.
C8_Frame ==
    /\ \E r \in Requests :
          \A q \in Requests \ {r} :
              /\ pc'[q] = pc[q]
              /\ body'[q] = body[q]
              /\ auction'[q] = auction[q]
              /\ raw'[q] = raw[q]
              /\ response'[q] = response[q]
    /\ \A q \in Requests : pc[q] \in Finished => (pc'[q] = pc[q] /\ response'[q] = response[q])
    /\ Len(log') >= Len(log)
    /\ SubSeq(log', 1, Len(log)) = log

\* C8: solve requests are independent: under every interleaving a request's
\* outcome depends on its own body only, and no step of one request changes
\* what belongs to another.
C8_Independent == [](C8_SameBodySameOutcome) /\ [][C8_Frame]_vars

C8_Witness ==
    /\ pc[1] = "responded"
    /\ pc[2] = "responded"
    /\ body[1] = body[2]
    /\ Len(log) = 4

\* C9: a request with a malformed Address or TokenAmount field never reaches
\* the handler: it is answered 422, nothing of it is bound, read or logged and
\* no solution is built; and whatever is in the handler has been validated.
C9_ValidationBeforeSolving ==
    \A r \in Requests :
        /\ (pc[r] # "idle" /\ FailsShape(Sent(r))) =>
              /\ pc[r] = "rejected"
              /\ auction[r] = <<>>
              /\ raw[r] = <<>>
              /\ response[r] = <<[status |-> 422]>>
              /\ \A k \in 1..Len(log) : log[k].arg # Sent(r)
        /\ pc[r] \in InHandler => (auction[r] = body[r] /\ ~FailsShape(Sent(r)))

C9_Witness ==
    \E r, q \in Requests :
        /\ pc[r] = "rejected"
        /\ FailsShape(Sent(r))
        /\ pc[q] = "responded"

\* C10: the solution response does not depend on the auction: every body that
\* validates is accepted, and every solution response is the one placeholder
\* solution (id 1, no prices, no trades, no interactions), with the auction as
\* it was received.
C10_ResponseIgnoresAuction ==
    \A r \in Requests :
        /\ (pc[r] # "idle" /\ ~FailsShape(Sent(r))) => pc[r] \in InHandler
        /\ pc[r] = "responded" =>
              /\ response[r] = <<[status |-> 200, solutions |-> <<Placeholder>>]>>
              /\ auction[r] = body[r]

C10_Witness ==
    \E r, q \in Requests :
        /\ pc[r] = "responded"
        /\ pc[q] = "responded"
        /\ Len(Sent(r).orders) = 0
        /\ Len(Sent(q).orders) = MaxOrders

====
